---- MODULE Spec2Model ----
(***************************************************************************)
(* Model of src/main.py: the Flask front end of the RAG search stack.      *)
(*                                                                         *)
(* State: the two module globals search_system and vector_store, the       *)
(* contents of UPLOAD_FOLDER, the persisted "faiss_store" index, and the   *)
(* last request with its response.  Strings (file names, the query, the    *)
(* top_k form value) are sequences of tokens, so that allowed_file,        *)
(* secure_filename, os.path.splitext, str.strip and int() are computed     *)
(* the way the code computes them.                                         *)
(***************************************************************************)
EXTENDS Integers, Sequences, FiniteSets, TLC

VARIABLES
    search_system,   \* global search_system (main.py:49): None or a handle
    vector_store,    \* global vector_store (main.py:50): None or a handle
    files,           \* names of the files in UPLOAD_FOLDER
    faiss_store,     \* the index persisted under "faiss_store"
    hasStoreAttr,    \* hasattr(search_system, 'vector_store') of the RAGSearch class in use
    hasAddDocuments, \* hasattr(vector_store, 'add_documents') of the store class in use
    resp,            \* the last request handled and its response
    pc,              \* per thread: position inside initialize_search_system
    docsLocal        \* per thread: the local `docs` of initialize_search_system

vars == <<search_system, vector_store, files, faiss_store, hasStoreAttr,
          hasAddDocuments, resp, pc, docsLocal>>

-----------------------------------------------------------------------------
(* Bounds *)

\* datetime.now() takes one of this many second-resolution values
MaxTime == 2

-----------------------------------------------------------------------------
(* Python values *)

None == [none |-> TRUE]

\* the strftime("%Y%m%d_%H%M%S") rendering of the n-th second
TimestampTokens == <<"t1", "t2", "t3", "t4">>
Timestamp(n) == TimestampTokens[n]

Max(a, b) == IF a >= b THEN a ELSE b
Min(a, b) == IF a <= b THEN a ELSE b

\* str.lower on one token
Lower(tok) == IF tok = "PDF" THEN "pdf" ELSE IF tok = "TXT" THEN "txt" ELSE tok

ALLOWED_EXTENSIONS == {"pdf"}

\* index of the last "." token of s, 0 when there is none
LastDot(s) ==
    LET D == {i \in 1..Len(s) : s[i] = "."}
    IN  IF D = {} THEN 0 ELSE CHOOSE i \in D : \A j \in D : j <= i

\* allowed_file letting any extension through
allowed_file_AnyExtension(filename) == LastDot(filename) # 0

\* '.' in filename and filename.rsplit('.', 1)[1].lower() in ALLOWED_EXTENSIONS
allowed_file(filename) ==
    /\ LastDot(filename) # 0
    /\ Len(filename) = LastDot(filename) + 1
    /\ Lower(filename[Len(filename)]) \in ALLOWED_EXTENSIONS

\* werkzeug secure_filename as far as the tokens here go: strip("._")
RECURSIVE StripLeft(_, _)
StripLeft(s, drop) ==
    IF s # <<>> /\ Head(s) \in drop THEN StripLeft(Tail(s), drop) ELSE s

RECURSIVE StripRight(_, _)
StripRight(s, drop) ==
    IF s # <<>> /\ s[Len(s)] \in drop
    THEN StripRight(SubSeq(s, 1, Len(s) - 1), drop) ELSE s

secure_filename(filename) == StripRight(StripLeft(filename, {".", "_"}), {".", "_"})

\* os.path.splitext: the extension starts at the last dot, leading dots aside
splitext(filename) ==
    LET i == LastDot(filename)
    IN  IF i = 0 \/ \A j \in 1..i : filename[j] = "."
        THEN [name |-> filename, ext |-> <<>>]
        ELSE [name |-> SubSeq(filename, 1, i - 1),
              ext  |-> SubSeq(filename, i, Len(filename))]

\* unique_filename = f"{name}_{timestamp}{ext}" of secure_filename(file.filename)
unique_filename(filename, ts) ==
    LET p == splitext(secure_filename(filename))
    IN  p.name \o <<"_", Timestamp(ts)>> \o p.ext

\* f.endswith('.pdf')
endswith_pdf(f) == Len(f) >= 2 /\ f[Len(f) - 1] = "." /\ f[Len(f)] = "pdf"

\* a strip() that was left out
strip_Missing(s) == s

\* str.strip() of the query
strip(s) == StripRight(StripLeft(s, {" "}), {" "})

-----------------------------------------------------------------------------
(* int(top_k_str) and the clamp of search() *)

Digits == {"0", "1", "2", "3", "4", "5", "6", "7", "8", "9"}

DigitVal(c) ==
    CASE c = "0" -> 0 [] c = "1" -> 1 [] c = "2" -> 2 [] c = "3" -> 3
      [] c = "4" -> 4 [] c = "5" -> 5 [] c = "6" -> 6 [] c = "7" -> 7
      [] c = "8" -> 8 [] c = "9" -> 9

RECURSIVE DigitsValue(_, _)
DigitsValue(s, acc) ==
    IF s = <<>> THEN acc ELSE DigitsValue(Tail(s), 10 * acc + DigitVal(Head(s)))

\* int(s): surrounding whitespace, an optional sign, one or more digits;
\* anything else raises ValueError
int(s) ==
    LET t    == strip(s)
        sign == t # <<>> /\ Head(t) \in {"+", "-"}
        d    == IF sign THEN Tail(t) ELSE t
    IN  IF d = <<>> \/ \E i \in 1..Len(d) : d[i] \notin Digits
        THEN [ok |-> FALSE, value |-> 0]
        ELSE [ok |-> TRUE,
              value |-> IF sign /\ Head(t) = "-" THEN 0 - DigitsValue(d, 0)
                        ELSE DigitsValue(d, 0)]

\* request.form.get('top_k', '5')
NoField == <<"<absent>">>
form_get(value, default) == IF value = NoField THEN default ELSE value

\* main.py:186-191 without the clamp of main.py:189
top_k_of_Unclamped(field) ==
    LET parsed == int(form_get(field, <<"5">>))
    IN  IF parsed.ok THEN parsed.value ELSE 5

\* main.py:186-191
top_k_of(field) ==
    LET top_k_str == form_get(field, <<"5">>)
        parsed    == int(top_k_str)
    IN  IF parsed.ok THEN Max(1, Min(20, parsed.value)) ELSE 5

-----------------------------------------------------------------------------
(* Collaborators: src.data_loader, src.vectorstore, src.search *)

\* load_all_documents(UPLOAD_FOLDER): one document per file of the folder
load_all_documents(folder) == folder

\* FaissVectorStore("faiss_store"): a fresh, empty store made by invocation id
FaissVectorStore(id) == [id |-> id, docs |-> {}]

\* RAGSearch(): a fresh search handle made by invocation id, no store wired yet
RAGSearch(id) == [id |-> id, store |-> 0]

NoIndex == [exists |-> FALSE, docs |-> {}]

\* vector_store.load(): the persisted index, when there is one that loads
load_ok(persisted, readable) == persisted.exists /\ readable

\* vector_store.build_from_documents(docs): index exactly docs and persist it
build_from_documents(store, docs) ==
    [store |-> [store EXCEPT !.docs = docs],
     persisted |-> [exists |-> TRUE, docs |-> docs]]

\* vector_store.add_documents([doc]): add to the in-memory index
add_documents(store, doc) == [store EXCEPT !.docs = @ \cup {doc}]

-----------------------------------------------------------------------------
(* initialize_search_system, main.py:70-110 *)

ThrowPoints == {"none", "RAGSearch", "load_all_documents", "FaissVectorStore",
                "build_from_documents"}

\* what the collaborators do during one invocation
InitOutcomes == [throwAt : ThrowPoints, readable : BOOLEAN]

\* main.py:98-101: wire the global vector_store into the search handle
WireStore(ss, vs, attr) == IF attr THEN [ss EXCEPT !.store = vs.id] ELSE ss

\* The globals, the persisted index and the return value after one invocation
\* number id that starts with globals ss, vs.
initialize_search_system(ss, vs, persisted, folder, attr, id, o) ==
    IF o.throwAt = "RAGSearch"
    THEN [ss |-> ss, vs |-> vs, persisted |-> persisted, ok |-> FALSE]
    ELSE
    LET ss1 == RAGSearch(id) IN
    IF o.throwAt = "load_all_documents"
    THEN [ss |-> ss1, vs |-> vs, persisted |-> persisted, ok |-> FALSE]
    ELSE
    LET docs == load_all_documents(folder) IN
    IF o.throwAt = "FaissVectorStore"
    THEN [ss |-> ss1, vs |-> vs, persisted |-> persisted, ok |-> FALSE]
    ELSE
    LET vs1 == FaissVectorStore(id) IN
    IF load_ok(persisted, o.readable)
    THEN LET vs2 == [vs1 EXCEPT !.docs = persisted.docs]
         IN  [ss |-> WireStore(ss1, vs2, attr), vs |-> vs2,
              persisted |-> persisted, ok |-> TRUE]
    ELSE IF docs # {}
    THEN IF o.throwAt = "build_from_documents"
         THEN [ss |-> ss1, vs |-> vs1, persisted |-> persisted, ok |-> FALSE]
         ELSE LET b == build_from_documents(vs1, docs)
              IN  [ss |-> WireStore(ss1, b.store, attr), vs |-> b.store,
                   persisted |-> b.persisted, ok |-> TRUE]
    ELSE [ss |-> WireStore(ss1, vs1, attr), vs |-> vs1,
          persisted |-> persisted, ok |-> TRUE]

-----------------------------------------------------------------------------
(* process_and_index_document, main.py:112-162 *)

\* what happens to one uploaded file: its text extracts and indexing works,
\* extract_text_from_pdf gives "", the store or loader call throws, or
\* file.save throws
Fates == {"ok", "notext", "indexthrows", "savethrows"}

\* folder already holds the saved file `filename`
process_and_index_document(vs, persisted, folder, addAttr, filename, fate) ==
    IF fate = "notext"
    THEN [success |-> FALSE, message |-> "No text could be extracted from PDF",
          vs |-> vs, persisted |-> persisted]
    ELSE IF vs # None /\ addAttr
    THEN IF fate = "indexthrows"
         THEN [success |-> FALSE, message |-> "exception",
               vs |-> vs, persisted |-> persisted]
         ELSE [success |-> TRUE,
               message |-> "Document processed and added to vector store successfully",
               vs |-> add_documents(vs, filename), persisted |-> persisted]
    ELSE IF fate = "indexthrows" \/ vs = None
         \* load_all_documents or build_from_documents throws; on None the
         \* attribute access vector_store.build_from_documents raises
         THEN [success |-> FALSE, message |-> "exception",
               vs |-> vs, persisted |-> persisted]
         ELSE LET b == build_from_documents(vs, load_all_documents(folder))
              IN  [success |-> TRUE,
                   message |-> "Document processed and index rebuilt successfully",
                   vs |-> b.store, persisted |-> b.persisted]

-----------------------------------------------------------------------------
(* Requests and responses *)

\* the thread serving requests one at a time, and a second one racing it
MainThread == 1
Threads == {MainThread, 2}

NoRequest == [query |-> <<>>, top_k |-> NoField, upload |-> <<>>, name |-> <<>>]

\* A response of the handler `op` to `req`, before the handler fills it in;
\* `uninit` notes whether the request found both handles absent.
Response(op, req) ==
    [op |-> op, req |-> req, code |-> 200, msg |-> "",
     uninit |-> (search_system = None /\ vector_store = None),
     initCalled |-> FALSE, initOk |-> FALSE,
     searchCalled |-> FALSE, top_k |-> 0,
     uploaded |-> <<>>, failed |-> <<>>, body |-> None]

Queries == {NoField, <<>>, <<" ">>, <<"q">>, <<" ", "q", " ">>}

TopKForms ==
    {NoField, <<>>, <<"9", "9", "9">>, <<"0">>, <<"-", "3">>, <<"2", "0">>,
     <<"2", "1">>, <<"1">>, <<"7">>, <<" ", "8">>, <<"a", "b">>, <<"3", ".", "5">>}

\* the forms POST /search is sent: every top_k with the plain query, the
\* other queries without a top_k field
SearchForms ==
    {[query |-> <<"q">>, top_k |-> k] : k \in TopKForms}
    \cup {[query |-> q, top_k |-> NoField] : q \in Queries}

\* the two forms that matter to the index lifecycle
BasicForms == {[query |-> <<"q">>, top_k |-> NoField], [query |-> <<>>, top_k |-> NoField]}

Pdf == <<"a", ".", "pdf">>

Seconds == 1..MaxTime

\* One part of a multipart upload: its name, the second it is handled in and
\* its fate.  A part whose name is not allowed has no fate; the upper-case
\* name comes with a PDF that has no text.
AcceptedParts ==
    {[filename |-> Pdf, ts |-> t, fate |-> f] : t \in Seconds, f \in Fates}
    \cup {[filename |-> <<"a", ".", "PDF">>, ts |-> 1, fate |-> "notext"]}

RejectedParts ==
    {[filename |-> n, ts |-> 1, fate |-> "ok"] : n \in {<<"a", ".", "txt">>, <<"a">>, <<>>}}

FileParts == AcceptedParts \cup RejectedParts

\* request.files.getlist('files') of one part; <<>> is a request without a
\* 'files' field
SingleUploads == {<<>>} \cup {<<f>> : f \in FileParts}

\* requests of two parts handled in the first second: one of them with a
\* name that is not allowed, or the same file twice
PairUploads ==
    LET now == {g \in AcceptedParts : g.ts = 1} IN
    {<<f, g>> : f \in RejectedParts, g \in now}
    \cup {<<g, f>> : g \in now, f \in RejectedParts}
    \cup {<<g, g>> : g \in {h \in now : h.fate = "ok"}}

\* every name an upload can store
StoredNames == {unique_filename(Pdf, t) : t \in Seconds}

\* names a client can ask to delete: stored ones, one with leading dots, a stranger
DeleteNames ==
    StoredNames \cup {<<".", ".">> \o unique_filename(Pdf, 1)} \cup {<<"zz", ".", "pdf">>}

\* UPLOAD_FOLDER when the process starts: empty, or holding a file of an earlier run
InitFolders == {{}, {unique_filename(Pdf, 1)}}

\* the collaborators' outcome when initialize_search_system is not reached
NoThrow == [throwAt |-> "none", readable |-> TRUE]

\* The outcomes of the collaborators that differ in a call the invocation
\* reaches: load() is reached only past the constructors, and
\* build_from_documents only when load() fails and there are documents.
Effective(o, persisted, folder) ==
    /\ o.throwAt \in {"RAGSearch", "load_all_documents", "FaissVectorStore"} => o.readable
    /\ ~persisted.exists => o.readable
    /\ o.throwAt = "build_from_documents" =>
          ~load_ok(persisted, o.readable) /\ load_all_documents(folder) # {}

-----------------------------------------------------------------------------
(* GET /api/search-system/status, main.py:371-391 *)

document_count(folder) == Cardinality({f \in folder : endswith_pdf(f)})

search_system_status(ss, vs, folder) ==
    [status |-> IF ss # None THEN "initialized" ELSE "not_initialized",
     document_count |-> document_count(folder),
     vector_store_loaded |-> vs # None]

Status ==
    /\ resp' = [Response("status", NoRequest) EXCEPT
                  !.body = search_system_status(search_system, vector_store, files)]
    /\ UNCHANGED <<search_system, vector_store, files, faiss_store, hasStoreAttr,
                   hasAddDocuments, pc, docsLocal>>

-----------------------------------------------------------------------------
(* POST /search, main.py:174-221 *)

\* RAGSearch has search_and_summarize, so main.py:205 takes its first branch;
\* searchThrows is that call raising into main.py:215.
SearchResult(field_query, field_top_k, o, searchThrows) ==
    LET query == strip(form_get(field_query, <<>>))
        req   == [NoRequest EXCEPT !.query = field_query, !.top_k = field_top_k]
        r0    == Response("search", req)
        same  == [ss |-> search_system, vs |-> vector_store,
                  persisted |-> faiss_store, ok |-> TRUE]
    IN  IF query = <<>>
        THEN [g |-> same, inits |-> 0,
              resp |-> [r0 EXCEPT !.msg = "Please enter a valid query."]]
        ELSE
        LET top_k  == top_k_of(field_top_k)
            needs  == search_system = None
            g      == IF needs
                      THEN initialize_search_system(search_system, vector_store,
                               faiss_store, files, hasStoreAttr, MainThread, o)
                      ELSE same
            r1     == [r0 EXCEPT !.initCalled = needs, !.initOk = needs /\ g.ok]
        IN  IF needs /\ ~g.ok
            THEN [g |-> g, inits |-> 1,
                  resp |-> [r1 EXCEPT !.msg =
                     "Search system is not initialized properly. Please check the logs."]]
            ELSE [g |-> g, inits |-> IF needs THEN 1 ELSE 0,
                  resp |-> [r1 EXCEPT !.searchCalled = TRUE, !.top_k = top_k,
                                      !.msg = IF searchThrows THEN "An error occurred"
                                              ELSE "summary"]]

SearchWith(forms) ==
    \E form \in forms, o \in InitOutcomes, searchThrows \in BOOLEAN :
      Effective(o, faiss_store, files) /\
      \E r \in {SearchResult(form.query, form.top_k, o, searchThrows)} :
        /\ r.inits = 0 => o = NoThrow
        /\ ~r.resp.searchCalled => ~searchThrows
        /\ search_system' = r.g.ss
        /\ vector_store' = r.g.vs
        /\ faiss_store' = r.g.persisted
        /\ resp' = r.resp
        /\ UNCHANGED <<files, hasStoreAttr, hasAddDocuments, pc, docsLocal>>

-----------------------------------------------------------------------------
(* POST /upload, main.py:223-294 *)

InvalidType == "Invalid file type. Only PDF files are allowed."

\* the loop of main.py:238-274 over the parts still to handle; st.error is
\* set when file.save throws and the handler leaves through main.py:290
RECURSIVE UploadLoop(_, _)
UploadLoop(parts, st) ==
    IF parts = <<>> \/ st.error THEN st
    ELSE
    LET file == Head(parts) IN
    IF file.filename # <<>> /\ allowed_file(file.filename)
    THEN LET unique == unique_filename(file.filename, file.ts) IN
         IF file.fate = "savethrows"
         THEN [st EXCEPT !.error = TRUE]
         ELSE
         LET saved == st.folder \cup {unique}
             r == process_and_index_document(st.vs, st.persisted, saved,
                                             hasAddDocuments, unique, file.fate)
         IN  IF r.success
             THEN UploadLoop(Tail(parts),
                     [st EXCEPT !.folder = saved, !.vs = r.vs,
                                !.persisted = r.persisted,
                                !.uploaded = Append(@, [original |-> file.filename,
                                                        saved_as |-> unique])])
             ELSE UploadLoop(Tail(parts),
                     [st EXCEPT !.folder = saved \ {unique},
                                !.failed = Append(@, [original |-> file.filename,
                                                      error |-> r.message])])
    ELSE UploadLoop(Tail(parts),
            [st EXCEPT !.failed = Append(@, [original |-> file.filename,
                                             error |-> InvalidType])])

Names(parts) == [i \in 1..Len(parts) |-> parts[i].filename]

UploadResult(parts, o) ==
    LET req == [NoRequest EXCEPT !.upload = Names(parts)]
        r0  == Response("upload", req)
        st0 == [folder |-> files, vs |-> vector_store, persisted |-> faiss_store,
                uploaded |-> <<>>, failed |-> <<>>, error |-> FALSE]
        g0  == [ss |-> search_system, vs |-> vector_store,
                persisted |-> faiss_store, ok |-> TRUE]
    IN  IF parts = <<>>
        THEN [g |-> g0, folder |-> files, inits |-> 0,
              resp |-> [r0 EXCEPT !.code = 400, !.msg = "No files provided"]]
        ELSE IF parts[1].filename = <<>>
        THEN [g |-> g0, folder |-> files, inits |-> 0,
              resp |-> [r0 EXCEPT !.code = 400, !.msg = "No files selected"]]
        ELSE
        LET st == UploadLoop(parts, st0)
            g1 == [g0 EXCEPT !.vs = st.vs, !.persisted = st.persisted]
        IN  IF st.error
            THEN [g |-> g1, folder |-> st.folder, inits |-> 0,
                  resp |-> [r0 EXCEPT !.code = 500, !.msg = "exception"]]
            ELSE IF st.uploaded # <<>>
            THEN LET g2 == initialize_search_system(search_system, st.vs, st.persisted,
                               st.folder, hasStoreAttr, MainThread, o)
                 IN  [g |-> g2, folder |-> st.folder, inits |-> 1, loop |-> st,
                      resp |-> [r0 EXCEPT !.initCalled = TRUE, !.initOk = g2.ok,
                                          !.uploaded = st.uploaded,
                                          !.failed = st.failed, !.msg = "uploaded"]]
            ELSE [g |-> g1, folder |-> st.folder, inits |-> 0,
                  resp |-> [r0 EXCEPT !.uploaded = st.uploaded,
                                      !.failed = st.failed, !.msg = "uploaded"]]

UploadWith(requests) ==
    \E parts \in requests, o \in InitOutcomes :
      \E r \in {UploadResult(parts, o)} :
        /\ r.inits = 0 => o = NoThrow
        /\ r.inits = 1 => Effective(o, r.loop.persisted, r.folder)
        /\ search_system' = r.g.ss
        /\ vector_store' = r.g.vs
        /\ faiss_store' = r.g.persisted
        /\ files' = r.folder
        /\ resp' = r.resp
        /\ UNCHANGED <<hasStoreAttr, hasAddDocuments, pc, docsLocal>>

-----------------------------------------------------------------------------
(* DELETE /api/documents/<filename>, main.py:321-340 *)

\* delete_document rebuilding whether or not the file was there
DeleteResult_AlwaysRebuild(filename, o, removeThrows) ==
    LET folder == files \ {secure_filename(filename)}
        g1 == initialize_search_system(search_system, vector_store, faiss_store,
                                       folder, hasStoreAttr, MainThread, o)
        r0 == Response("delete", [NoRequest EXCEPT !.name = filename])
    IN  [g |-> g1, folder |-> folder, inits |-> 1,
         resp |-> IF secure_filename(filename) \in files
                  THEN [r0 EXCEPT !.initCalled = TRUE, !.initOk = g1.ok,
                                  !.msg = "Document deleted successfully"]
                  ELSE [r0 EXCEPT !.code = 404, !.msg = "Document not found"]]

DeleteResult(filename, o, removeThrows) ==
    LET safe_filename == secure_filename(filename)
        r0 == Response("delete", [NoRequest EXCEPT !.name = filename])
        g0 == [ss |-> search_system, vs |-> vector_store,
               persisted |-> faiss_store, ok |-> TRUE]
    IN  IF safe_filename \in files
        THEN IF removeThrows
             THEN [g |-> g0, folder |-> files, inits |-> 0,
                   resp |-> [r0 EXCEPT !.code = 500, !.msg = "exception"]]
             ELSE LET folder == files \ {safe_filename}
                      g1 == initialize_search_system(search_system, vector_store,
                               faiss_store, folder, hasStoreAttr, MainThread, o)
                  IN  [g |-> g1, folder |-> folder, inits |-> 1,
                       resp |-> [r0 EXCEPT !.initCalled = TRUE, !.initOk = g1.ok,
                                           !.msg = "Document deleted successfully"]]
        ELSE [g |-> g0, folder |-> files, inits |-> 0,
              resp |-> [r0 EXCEPT !.code = 404, !.msg = "Document not found"]]

Delete ==
    \E filename \in DeleteNames, o \in InitOutcomes, removeThrows \in BOOLEAN :
      Effective(o, faiss_store, files \ {secure_filename(filename)}) /\
      \E r \in {DeleteResult(filename, o, removeThrows)} :
        /\ r.inits = 0 => o = NoThrow
        /\ search_system' = r.g.ss
        /\ vector_store' = r.g.vs
        /\ faiss_store' = r.g.persisted
        /\ files' = r.folder
        /\ resp' = r.resp
        /\ UNCHANGED <<hasStoreAttr, hasAddDocuments, pc, docsLocal>>

-----------------------------------------------------------------------------
(* POST /api/reindex, main.py:358-369 *)

Reindex ==
    \E o \in InitOutcomes :
      Effective(o, faiss_store, files) /\
      \E g \in {initialize_search_system(search_system, vector_store, faiss_store,
                                         files, hasStoreAttr, MainThread, o)} :
            /\ search_system' = g.ss
            /\ vector_store' = g.vs
            /\ faiss_store' = g.persisted
            /\ resp' = [Response("reindex", NoRequest) EXCEPT
                          !.initCalled = TRUE, !.initOk = g.ok,
                          !.code = IF g.ok THEN 200 ELSE 500,
                          !.msg = IF g.ok THEN "Reindexing completed successfully"
                                  ELSE "Reindexing failed"]
            /\ UNCHANGED <<files, hasStoreAttr, hasAddDocuments, pc, docsLocal>>

-----------------------------------------------------------------------------
(* The server handling one request at a time *)

Init ==
    /\ search_system = None
    /\ vector_store = None
    /\ files \in InitFolders
    /\ faiss_store = NoIndex
    /\ hasStoreAttr \in BOOLEAN
    /\ hasAddDocuments \in BOOLEAN
    /\ resp = [op |-> "none", req |-> NoRequest, code |-> 200, msg |-> "",
               uninit |-> TRUE, initCalled |-> FALSE, initOk |-> FALSE,
               searchCalled |-> FALSE, top_k |-> 0,
               uploaded |-> <<>>, failed |-> <<>>, body |-> None]
    /\ pc = [t \in Threads |-> "idle"]
    /\ docsLocal = [t \in Threads |-> {}]

Search == SearchWith(BasicForms)

Upload == UploadWith(SingleUploads)

Next == Search \/ Upload \/ Delete \/ Reindex \/ Status

Spec == Init /\ [][Next]_vars

\* the server with two-part uploads as well
UploadPairs == UploadWith(PairUploads)

UploadOne == UploadWith({<<[filename |-> Pdf, ts |-> 1, fate |-> "ok"]>>})

NextUpload == Search \/ UploadPairs \/ UploadOne \/ Delete \/ Reindex \/ Status

SpecUpload == Init /\ [][NextUpload]_vars

\* the server with every form of POST /search, and one upload to get documents
SearchAny == SearchWith(SearchForms)

NextSearch == SearchAny \/ UploadOne \/ Delete \/ Reindex \/ Status

SpecSearch == Init /\ [][NextSearch]_vars

-----------------------------------------------------------------------------
(* Two rebuild triggers racing: each thread of the threaded server runs     *)
(* initialize_search_system for a POST /api/reindex, one statement at a     *)
(* time; every statement reads the globals anew, as the code does.          *)

Globals == <<files, hasStoreAttr, hasAddDocuments, resp>>

\* the request reaches the handler and enters initialize_search_system
Begin(t) ==
    /\ pc[t] = "idle"
    /\ pc' = [pc EXCEPT ![t] = "l77"]
    /\ UNCHANGED <<search_system, vector_store, faiss_store, docsLocal, Globals>>

\* main.py:77  search_system = RAGSearch()
L77(t) ==
    /\ pc[t] = "l77"
    /\ \E throws \in BOOLEAN :
         IF throws
         THEN pc' = [pc EXCEPT ![t] = "returnedFalse"] /\ UNCHANGED search_system
         ELSE pc' = [pc EXCEPT ![t] = "l81"] /\ search_system' = RAGSearch(t)
    /\ UNCHANGED <<vector_store, faiss_store, docsLocal, Globals>>

\* main.py:81  docs = load_all_documents(UPLOAD_FOLDER)
L81(t) ==
    /\ pc[t] = "l81"
    /\ \E throws \in BOOLEAN :
         IF throws
         THEN pc' = [pc EXCEPT ![t] = "returnedFalse"] /\ UNCHANGED docsLocal
         ELSE /\ pc' = [pc EXCEPT ![t] = "l85"]
              /\ docsLocal' = [docsLocal EXCEPT ![t] = load_all_documents(files)]
    /\ UNCHANGED <<search_system, vector_store, faiss_store, Globals>>

\* main.py:85  vector_store = FaissVectorStore("faiss_store")
L85(t) ==
    /\ pc[t] = "l85"
    /\ \E throws \in BOOLEAN :
         IF throws
         THEN pc' = [pc EXCEPT ![t] = "returnedFalse"] /\ UNCHANGED vector_store
         ELSE pc' = [pc EXCEPT ![t] = "l89"] /\ vector_store' = FaissVectorStore(t)
    /\ UNCHANGED <<search_system, faiss_store, docsLocal, Globals>>

\* main.py:88-91  vector_store.load(), on the store the global names now
L89(t) ==
    /\ pc[t] = "l89"
    /\ \E readable \in BOOLEAN :
         IF load_ok(faiss_store, readable)
         THEN /\ vector_store' = [vector_store EXCEPT !.docs = faiss_store.docs]
              /\ pc' = [pc EXCEPT ![t] = "l98"]
         ELSE /\ pc' = [pc EXCEPT ![t] = "l93"]
              /\ UNCHANGED vector_store
    /\ UNCHANGED <<search_system, faiss_store, docsLocal, Globals>>

\* main.py:93-94  if docs: vector_store.build_from_documents(docs)
L93(t) ==
    /\ pc[t] = "l93"
    /\ IF docsLocal[t] # {}
       THEN \E throws \in BOOLEAN :
              IF throws
              THEN /\ pc' = [pc EXCEPT ![t] = "returnedFalse"]
                   /\ UNCHANGED <<vector_store, faiss_store>>
              ELSE \E b \in {build_from_documents(vector_store, docsLocal[t])} :
                   /\ vector_store' = b.store
                   /\ faiss_store' = b.persisted
                   /\ pc' = [pc EXCEPT ![t] = "l98"]
       ELSE /\ pc' = [pc EXCEPT ![t] = "l98"]
            /\ UNCHANGED <<vector_store, faiss_store>>
    /\ UNCHANGED <<search_system, docsLocal, Globals>>

\* main.py:98-104  wire the store into the search handle, return True
L98(t) ==
    /\ pc[t] = "l98"
    /\ search_system' = WireStore(search_system, vector_store, hasStoreAttr)
    /\ pc' = [pc EXCEPT ![t] = "returnedTrue"]
    /\ UNCHANGED <<vector_store, faiss_store, docsLocal, Globals>>

NextRace ==
    \E t \in Threads :
        Begin(t) \/ L77(t) \/ L81(t) \/ L85(t) \/ L89(t) \/ L93(t) \/ L98(t)

SpecRace == Init /\ [][NextRace]_vars

-----------------------------------------------------------------------------
(* Properties *)

Range(seq) == {seq[i] : i \in 1..Len(seq)}

\* C1: between requests the two handles are both present or both absent.
C1_BothOrNeither == (search_system = None) <=> (vector_store = None)

\* C2: when initialize_search_system failed in a request that found the
\* system uninitialized, the next POST /search with a non-empty query finds
\* search_system absent and calls initialize_search_system again.
C2_FailureNotPersisted ==
    [][ ( /\ resp.uninit /\ resp.initCalled /\ ~resp.initOk
          /\ resp'.op = "search"
          /\ strip(form_get(resp'.req.query, <<>>)) # <<>> )
        => (search_system = None /\ resp'.initCalled) ]_vars

\* C3: right after a rebuild that an upload, a delete or a reindex triggered
\* and that succeeded, the store holds exactly the documents of the folder.
C3_FullRebuild ==
    (resp.op \in {"upload", "delete", "reindex"} /\ resp.initCalled /\ resp.initOk)
        => (vector_store # None /\ vector_store.docs = load_all_documents(files))

\* C4: an upload that reports one file under 'uploaded' raises the status
\* document_count by exactly one and leaves both handles present.
C4_CountUpByOne ==
    [][ (resp'.op = "upload" /\ Len(resp'.uploaded) = 1)
        => ( /\ search_system_status(search_system', vector_store', files').document_count
                = search_system_status(search_system, vector_store, files).document_count + 1
             /\ search_system' # None
             /\ vector_store' # None ) ]_vars

\* C5: once two racing invocations of initialize_search_system have both
\* returned True, both handles are present and come from the same
\* invocation, and the store wired into the search handle is that store.
C5_NotTorn ==
    (\A t \in Threads : pc[t] = "returnedTrue")
        => ( /\ search_system # None
             /\ vector_store # None
             /\ search_system.id = vector_store.id
             /\ (hasStoreAttr => search_system.store = vector_store.id) )

\* C10: an upload that finds vector_store absent leaves the stored files and
\* both handles as they were, reports nothing under 'uploaded' and does not
\* call initialize_search_system.
C10_UploadUninitialized ==
    [][ (resp'.op = "upload" /\ vector_store = None)
        => ( /\ files' = files
             /\ search_system' = search_system
             /\ vector_store' = vector_store
             /\ resp'.uploaded = <<>>
             /\ ~resp'.initCalled ) ]_vars

\* C6: DELETE of a name whose sanitized form is not in the folder answers
\* 404 'Document not found', does not call initialize_search_system and
\* leaves both handles and the stored files unchanged.
C6_DeleteMissing ==
    [][ (resp'.op = "delete" /\ secure_filename(resp'.req.name) \notin files)
        => ( /\ resp'.code = 404
             /\ resp'.msg = "Document not found"
             /\ ~resp'.initCalled
             /\ UNCHANGED <<search_system, vector_store, files>> ) ]_vars

\* a 404 was answered while the system was initialized and held a document
C6_Witness ==
    /\ resp.op = "delete"
    /\ resp.code = 404
    /\ search_system # None
    /\ vector_store # None
    /\ files # {}

\* the name has no extension, or one that is not pdf in any letter case
NotPdf(name) ==
    \/ "." \notin Range(name)
    \/ name[Len(name)] \notin {"pdf", "PDF"}

InvalidEntries(failed) ==
    {j \in 1..Len(failed) : failed[j].error = InvalidType}

C8_EmptyQuery ==
    [][ ( /\ resp'.op = "search"
          /\ \/ resp'.req.query = NoField
             \/ \A i \in 1..Len(resp'.req.query) : resp'.req.query[i] = " " )
        => ( /\ resp'.msg = "Please enter a valid query."
             /\ ~resp'.initCalled
             /\ ~resp'.searchCalled
             /\ UNCHANGED <<search_system, vector_store>> ) ]_vars

\* a whitespace query was answered and the system is still uninitialized
C8_Witness ==
    /\ resp.op = "search"
    /\ resp.req.query = <<" ">>
    /\ resp.msg = "Please enter a valid query."
    /\ search_system = None
    /\ vector_store = None

\* C9: the top_k passed to search_and_summarize is the form's integer
\* clamped into [1, 20], and 5 when the field is missing or no integer.
C9_TopK ==
    (resp.op = "search" /\ resp.searchCalled)
        => LET field == resp.req.top_k
               n     == int(field)
           IN  /\ resp.top_k \in 1..20
               /\ field = NoField => resp.top_k = 5
               /\ (field # NoField /\ ~n.ok) => resp.top_k = 5
               /\ (field # NoField /\ n.ok) =>
                     resp.top_k = (IF n.value < 1 THEN 1
                                   ELSE IF n.value > 20 THEN 20 ELSE n.value)
               /\ field = <<"9", "9", "9">> => resp.top_k = 20
               /\ field \in {<<"0">>, <<"-", "3">>} => resp.top_k = 1
               /\ field \in {<<"a", "b">>, <<"3", ".", "5">>, <<>>} => resp.top_k = 5
               /\ field = <<"7">> => resp.top_k = 7

\* a search ran with top_k=999 and passed 20
C9_Witness ==
    /\ resp.op = "search"
    /\ resp.searchCalled
    /\ resp.req.top_k = <<"9", "9", "9">>
    /\ resp.top_k = 20

====
